---- MODULE Spec2Model ----
(***************************************************************************)
(* Model of algebraic_enum: the enum core (factory, match, mutate) and the *)
(* behaviour-attached enum (EnumImpl).                                      *)
(*                                                                          *)
(* A JavaScript object is a record                                          *)
(*   [props |-> sequence of <<key, value>> in insertion order,              *)
(*    proto |-> the class whose prototype carries its methods].             *)
(* Objects live in a heap indexed by reference; two references are aliases  *)
(* exactly when they are the same index.                                    *)
(***************************************************************************)
EXTENDS Integers, Sequences, FiniteSets, TLC

VARIABLES heap, arrays, hist, last

vars == <<heap, arrays, hist, last>>

\* ---------------------------------------------------------------- bounds
MaxObjs == 2
MaxArrs == 2
MaxCalls == 2

\* ---------------------------------------------------------------- values
Undefined == [t |-> "undefined", v |-> 0]
Null == [t |-> "null", v |-> 0]
Str(i) == [t |-> "string", v |-> i]
Arr(i) == [t |-> "array", v |-> i]

\* the variants of the Message enum used throughout the repository's tests
Variants == <<"Quit", "Plaintext", "Encrypted">>

VariantNames == {Variants[i] : i \in 1..Len(Variants)}

\* the reserved wildcard key of a matcher
Wildcard == "_"

ObjIds == 1..MaxObjs

\* the reference of an object literal that lives only during one call
TmpId == 0

\* ------------------------------------------------------- object primitives
\* Object.keys(o) / for (key in o): own enumerable keys in insertion order
Keys(props) == [i \in 1..Len(props) |-> props[i][1]]

HasKey(props, key) == \E i \in 1..Len(props) : props[i][1] = key

\* o[key]: the value of the property, undefined when the key is absent
Get(props, key) ==
  IF HasKey(props, key)
    THEN props[CHOOSE i \in 1..Len(props) : props[i][1] = key][2]
    ELSE Undefined

\* o[key] = val: keeps the position of an existing key, appends a new one
Set(props, key, val) ==
  IF HasKey(props, key)
    THEN [i \in 1..Len(props) |->
            IF props[i][1] = key THEN <<key, val>> ELSE props[i]]
    ELSE Append(props, <<key, val>>)

\* delete o[key]
Delete(props, key) == SelectSeq(props, LAMBDA p : p[1] # key)

RECURSIVE AssignFrom(_, _, _)
AssignFrom(target, source, i) ==
  IF i > Len(source) THEN target
  ELSE AssignFrom(Set(target, source[i][1], source[i][2]), source, i + 1)

\* Object.assign(target, source) on the property lists
ObjectAssign(target, source) == AssignFrom(target, source, 1)

\* ------------------------------------------------------------- enum values
\* value[key] !== undefined
Present(props, key) == Get(props, key) # Undefined

\* the variants that are present on a container
ActiveVariants(props) == {v \in VariantNames : Present(props, v)}

\* exactly one declared variant key present, every other declared key absent
WellFormed(props) ==
  \E v \in VariantNames :
    /\ Present(props, v)
    /\ \A w \in VariantNames \ {v} : ~HasKey(props, w)

ActiveVariant(props) == CHOOSE v \in VariantNames : Present(props, v)

Payload(props) == Get(props, ActiveVariant(props))

NoObj == [props |-> <<>>, proto |-> "none"]

Allocated(h, o) == h[o].proto # "none"

\* ----------------------------------------------------------------- factory
\* createEnumFactory(variants, Impl)[variant](data): the default parameter
\* `data = null` replaces an undefined (or missing) argument by null;
\* with Impl the literal goes through the EnumImpl constructor, which
\* Object.assign()s it onto the new instance.
createEnumFactory(variant, data, Impl) ==
  LET d == IF data = Undefined THEN Null ELSE data
      literal == <<<<variant, d>>>>
  IN IF Impl = "Object"
       THEN [props |-> literal, proto |-> "Object"]
       ELSE [props |-> ObjectAssign(<<>>, literal), proto |-> Impl]

\* the factory without `?? null`
factory_NoDefault(variant, value) ==
  [props |-> <<<<variant, value>>>>, proto |-> "Object"]

\* Enum.factory(Variants)[variant](value): { [variant]: value ?? null }
factory(variant, value) ==
  [props |-> <<<<variant, IF value \in {Undefined, Null} THEN Null ELSE value>>>>,
   proto |-> "Object"]

\* new EnumImpl(data): Object.assign(this, data)
EnumImpl(data, Impl) == [props |-> ObjectAssign(<<>>, data), proto |-> Impl]

\* ------------------------------------------------------------------- match
MatcherKeys == VariantNames \cup {Wildcard}

\* an entry of a matcher object: the key is absent, holds undefined, or
\* holds a handler function
Matchers == [MatcherKeys -> {"absent", "undefined", "fn"}]

\* matcher[key]
MGet(matcher, key) == IF key \in DOMAIN matcher THEN matcher[key] ELSE "absent"

\* key in matcher
MIn(matcher, key) == MGet(matcher, key) # "absent"

NoResult == [calls |-> <<>>, kind |-> "none", ret |-> [h |-> "", arg |-> Undefined], err |-> ""]

\* the handler under `key` is called with `arg` and its result is returned
Return(key, arg) ==
  [calls |-> <<[h |-> key, arg |-> arg]>>, kind |-> "return",
   ret |-> [h |-> key, arg |-> arg], err |-> ""]

Throw(err) ==
  [calls |-> <<>>, kind |-> "throw", ret |-> [h |-> "", arg |-> Undefined], err |-> err]

NonExhaustiveMessage == "Error: Non-exhaustive matcher"

RECURSIVE FirstHandled(_, _, _)
\* the loop of Enum.match: the first key of value, in key order, that is
\* present and has a defined handler; "_" when there is none
FirstHandled(props, matcher, i) ==
  IF i > Len(props) THEN Wildcard
  ELSE IF props[i][2] # Undefined /\ MGet(matcher, props[i][1]) = "fn"
    THEN props[i][1]
    ELSE FirstHandled(props, matcher, i + 1)

\* the wildcard arm tested before the variant arm
Enum_match_WildcardFirst(props, matcher) ==
  LET variant == FirstHandled(props, matcher, 1)
  IN IF MIn(matcher, Wildcard) /\ MGet(matcher, Wildcard) # "undefined"
       THEN Return(Wildcard, Undefined)
     ELSE IF variant # Wildcard
       THEN Return(variant, Get(props, variant))
     ELSE Throw(NonExhaustiveMessage)

\* Enum.match of the Enum object (factory revision)
Enum_match(props, matcher) ==
  LET variant == FirstHandled(props, matcher, 1)
  IN IF variant # Wildcard
       THEN Return(variant, Get(props, variant))
     ELSE IF MIn(matcher, Wildcard) /\ MGet(matcher, Wildcard) # "undefined"
       THEN Return(Wildcard, Undefined)
     ELSE Throw(NonExhaustiveMessage)

RECURSIVE MatchLoop(_, _, _)
\* the loop of match in namespace Enum: returns from inside the loop at the
\* first present key with a non-null handler
MatchLoop(props, matcher, i) ==
  IF i > Len(props) THEN NoResult
  ELSE IF props[i][2] # Undefined /\ MGet(matcher, props[i][1]) = "fn"
    THEN Return(props[i][1], props[i][2])
    ELSE MatchLoop(props, matcher, i + 1)

\* the wildcard arm left out
match_NoWildcard(props, matcher) ==
  LET r == MatchLoop(props, matcher, 1)
  IN IF r.kind = "return" THEN r ELSE Throw("NonExhaustiveMatcherError")

\* the wildcard arm taken for every matcher
match_AlwaysWildcard(props, matcher) ==
  LET r == MatchLoop(props, matcher, 1)
  IN IF r.kind = "return" THEN r ELSE Return(Wildcard, Null)

\* match of namespace Enum (class revision)
match(props, matcher) ==
  LET r == MatchLoop(props, matcher, 1)
  IN IF r.kind = "return" THEN r
     ELSE IF MIn(matcher, Wildcard)
       THEN IF MGet(matcher, Wildcard) = "fn"
              THEN Return(Wildcard, Null)
              ELSE Throw("TypeError: matcher._ is not a function")
     ELSE Throw("NonExhaustiveMatcherError")

\* ------------------------------------------------------------------ mutate
RECURSIVE DeleteKeys(_, _, _)
DeleteKeys(props, keys, i) ==
  IF i > Len(keys) THEN props
  ELSE DeleteKeys(Delete(props, keys[i]), keys, i + 1)

\* for (key in value) delete value[key]
DeleteAll(h, value) ==
  [h EXCEPT ![value].props = DeleteKeys(@, Keys(@), 1)]

\* the delete loop left out: Object.assign onto the old keys
Enum_mutate_NoDelete(h, value, other) ==
  [h EXCEPT ![value].props = ObjectAssign(h[value].props, h[other].props)]

\* the container replaced by other instead of being rewritten in place
Enum_mutate_Replace(h, value, other) ==
  [h EXCEPT ![value] = h[other]]

\* Enum.mutate(value, other) of the Enum object (factory revision): the
\* loop deletes every key of value, then Object.assign reads other from
\* the heap as the loop left it
Enum_mutate(h, value, other) ==
  LET cleared == DeleteAll(h, value)
  IN [cleared EXCEPT ![value].props =
        ObjectAssign(cleared[value].props, cleared[other].props)]

\* mutate(value, other) of namespace Enum (class revision), the same code
mutate(h, value, other) ==
  LET cleared == DeleteAll(h, value)
  IN [cleared EXCEPT ![value].props =
        ObjectAssign(cleared[value].props, cleared[other].props)]

\* ------------------------------------------------------------ the callers
\* values that reach match from outside the type checker (`{} as any`,
\* `{ Invalid: null } as any`), as the tests pass them
Casts ==
  { <<>>,
    <<<<"Invalid", Null>>>>,
    <<<<"Quit", Undefined>>>>,
    <<<<"Invalid", Null>>, <<"Plaintext", Str(1)>>>> }

\* the data a caller passes to a constructor: nothing, null, a string, an
\* array it already holds, or a new array literal
DataArgs == {Undefined, Null, Str(1)} \cup {Arr(i) : i \in 1..arrays}

NoMatcher == [k \in MatcherKeys |-> "absent"]

NoCall ==
  [op |-> "none", rev |-> "", value |-> TmpId, other |-> TmpId,
   variant |-> "", data |-> Undefined, matcher |-> NoMatcher,
   subject |-> <<>>, res |-> NoResult, pre |-> heap,
   outcome |-> "none", out |-> Undefined, msg |-> "", cb |-> 0,
   items |-> <<>>, fn |-> <<>>]

\* the caller is between two calls: it has dropped the previous result
Idle == last.op = "none"

NoHist ==
  [start |-> "", encrypts |-> 0, mutated |-> FALSE,
   uses |-> 0, calls |-> 0, first |-> Undefined]

FreeIds == {o \in ObjIds : ~Allocated(heap, o)}

NewId == CHOOSE o \in FreeIds : \A p \in FreeIds : o <= p

Live == {o \in ObjIds : Allocated(heap, o)}

Init ==
  /\ heap = [o \in ObjIds |-> NoObj]
  /\ arrays = 0
  /\ hist = [o \in ObjIds |-> NoHist]
  /\ last = [NoCall EXCEPT !.pre = [o \in ObjIds |-> NoObj]]

\* a caller evaluates `[...]`: a new array
NewArray ==
  /\ Idle
  /\ arrays < MaxArrs
  /\ arrays' = arrays + 1
  /\ last' = [NoCall EXCEPT !.op = "array", !.data = Arr(arrays + 1)]
  /\ UNCHANGED <<heap, hist>>

\* Message.Variant(data) with the factory of Enum.factory(variants)
\* (createEnumFactory without Impl)
Construct(v, d) ==
  /\ Idle
  /\ FreeIds # {}
  /\ heap' = [heap EXCEPT ![NewId] = createEnumFactory(v, d, "Object")]
  /\ last' = [NoCall EXCEPT !.op = "factory", !.rev = "object",
                            !.value = NewId, !.variant = v, !.data = d]
  /\ UNCHANGED <<arrays, hist>>

\* Message().Variant(value) with the factory of namespace Enum
ConstructNs(v, d) ==
  /\ Idle
  /\ FreeIds # {}
  /\ heap' = [heap EXCEPT ![NewId] = factory(v, d)]
  /\ last' = [NoCall EXCEPT !.op = "factory", !.rev = "namespace",
                            !.value = NewId, !.variant = v, !.data = d]
  /\ UNCHANGED <<arrays, hist>>

\* Enum.match(value, matcher) on a container of the heap
Match(o, m) ==
  /\ Idle
  /\ Allocated(heap, o)
  /\ last' = [NoCall EXCEPT !.op = "match", !.rev = "object", !.value = o,
                            !.matcher = m, !.subject = heap[o].props,
                            !.res = Enum_match(heap[o].props, m)]
  /\ UNCHANGED <<heap, arrays, hist>>

MatchNs(o, m) ==
  /\ Idle
  /\ Allocated(heap, o)
  /\ last' = [NoCall EXCEPT !.op = "match", !.rev = "namespace", !.value = o,
                            !.matcher = m, !.subject = heap[o].props,
                            !.res = match(heap[o].props, m)]
  /\ UNCHANGED <<heap, arrays, hist>>

\* Enum.match(cast as any, matcher)
MatchCast(c, m) ==
  /\ Idle
  /\ last' = [NoCall EXCEPT !.op = "match", !.rev = "object",
                            !.matcher = m, !.subject = c,
                            !.res = Enum_match(c, m)]
  /\ UNCHANGED <<heap, arrays, hist>>

MatchCastNs(c, m) ==
  /\ Idle
  /\ last' = [NoCall EXCEPT !.op = "match", !.rev = "namespace",
                            !.matcher = m, !.subject = c,
                            !.res = match(c, m)]
  /\ UNCHANGED <<heap, arrays, hist>>

\* Enum.mutate(value, other)
Mutate(a, b) ==
  /\ Idle
  /\ Allocated(heap, a) /\ Allocated(heap, b)
  /\ heap' = Enum_mutate(heap, a, b)
  /\ last' = [NoCall EXCEPT !.op = "mutate", !.rev = "object",
                            !.value = a, !.other = b]
  /\ UNCHANGED <<arrays, hist>>

MutateNs(a, b) ==
  /\ Idle
  /\ Allocated(heap, a) /\ Allocated(heap, b)
  /\ heap' = mutate(heap, a, b)
  /\ last' = [NoCall EXCEPT !.op = "mutate", !.rev = "namespace",
                            !.value = a, !.other = b]
  /\ UNCHANGED <<arrays, hist>>

\* the caller drops the result of the call and goes on
Continue ==
  /\ ~Idle
  /\ last' = NoCall
  /\ UNCHANGED <<heap, arrays, hist>>

\* construction and mutation of the containers of the heap
Next ==
  \/ Continue
  \/ NewArray
  \/ \E v \in VariantNames, d \in DataArgs : Construct(v, d)
  \/ \E v \in VariantNames, d \in DataArgs : ConstructNs(v, d)
  \/ \E a \in ObjIds, b \in ObjIds : Mutate(a, b)
  \/ \E a \in ObjIds, b \in ObjIds : MutateNs(a, b)

Spec == Init /\ [][Next]_vars

\* matching: one subject, made by a factory (and possibly mutated) or cast
\* from outside the type checker, against every matcher
NextMatch ==
  \/ Continue
  \/ NewArray
  \/ \E v \in VariantNames, d \in DataArgs : Live = {} /\ Construct(v, d)
  \/ \E v \in VariantNames, d \in DataArgs : Live = {} /\ ConstructNs(v, d)
  \/ \E a \in ObjIds : Mutate(a, a)
  \/ \E a \in ObjIds : MutateNs(a, a)
  \/ \E o \in ObjIds, m \in Matchers : Match(o, m)
  \/ \E o \in ObjIds, m \in Matchers : MatchNs(o, m)
  \/ \E c \in Casts, m \in Matchers : MatchCast(c, m)
  \/ \E c \in Casts, m \in Matchers : MatchCastNs(c, m)

SpecMatch == Init /\ [][NextMatch]_vars

\* ------------------------------------------------- enum with behaviour
\* the matcher of MessageImpl.encrypt: { Plaintext: ..., _: () => {} }
EncryptMatcher ==
  [k \in MatcherKeys |-> IF k \in {"Plaintext", Wildcard} THEN "fn" ELSE "absent"]

\* the matchers of the tests of MessageImpl:
\* { Encrypted: () => true, _: () => false }, { Quit: () => true, _: () => false }
TestMatchers ==
  { [k \in MatcherKeys |-> IF k \in {"Encrypted", Wildcard} THEN "fn" ELSE "absent"],
    [k \in MatcherKeys |-> IF k \in {"Quit", Wildcard} THEN "fn" ELSE "absent"] }

\* the heap h with the object literal `obj` under the temporary reference
WithTmp(h, obj) == [o \in DOMAIN h \cup {TmpId} |-> IF o = TmpId THEN obj ELSE h[o]]

\* the literal is garbage once the call has returned
DropTmp(h) == [o \in DOMAIN h \ {TmpId} |-> h[o]]

\* MessageImpl.encrypt of the EnumWithImpl test: the Plaintext handler runs
\* Enum.mutate(this, { Encrypted: [1, 2, 3] }), the wildcard does nothing
encrypt(h, this, arr) ==
  LET res == Enum_match(h[this].props, EncryptMatcher)
      other == [props |-> <<<<"Encrypted", arr>>>>, proto |-> "Object"]
  IN [res |-> res,
      heap |-> IF res.kind = "return" /\ res.ret.h = "Plaintext"
                 THEN DropTmp(Enum_mutate(WithTmp(h, other), this, TmpId))
                 ELSE h]

\* MessageImpl.encrypt of the EnumClass test: the Plaintext handler runs
\* Enum.mutate(this, Message<T>().Encrypted([1, 2, 3]))
encryptClass(h, this, arr) ==
  LET res == Enum_match(h[this].props, EncryptMatcher)
      other == createEnumFactory("Encrypted", arr, "MessageImpl")
  IN [res |-> res,
      heap |-> IF res.kind = "return" /\ res.ret.h = "Plaintext"
                 THEN DropTmp(Enum_mutate(WithTmp(h, other), this, TmpId))
                 ELSE h]

\* msg.encrypt is found on the prototype of msg
HasMethods(h, o) == h[o].proto = "MessageImpl"

\* the properties of the prototype of a class: a method definition in a
\* class body (send, encrypt) creates a non-enumerable property
PrototypeProps(proto) ==
  IF proto = "MessageImpl"
    THEN << [key |-> "send", enumerable |-> FALSE],
            [key |-> "encrypt", enumerable |-> FALSE] >>
    ELSE << >>

\* the keys `for (let key in value)` visits: the own enumerable keys, then
\* the enumerable keys of the prototype
ForIn(obj) ==
  LET inherited == SelectSeq(PrototypeProps(obj.proto), LAMBDA p : p.enumerable)
  IN Keys(obj.props) \o [i \in 1..Len(inherited) |-> inherited[i].key]

\* Message<T>().Variant(data) with Enum.factory(MessageVariants, MessageImpl)
ConstructImpl(v, d) ==
  /\ Idle
  /\ FreeIds # {}
  /\ heap' = [heap EXCEPT ![NewId] = createEnumFactory(v, d, "MessageImpl")]
  /\ hist' = [hist EXCEPT ![NewId] = [NoHist EXCEPT !.start = v]]
  /\ last' = [NoCall EXCEPT !.op = "factory", !.rev = "object",
                            !.value = NewId, !.variant = v, !.data = d]
  /\ UNCHANGED arrays

\* new Message({ [v]: d })
NewMessage(v, d) ==
  /\ Idle
  /\ FreeIds # {}
  /\ d # Undefined
  /\ heap' = [heap EXCEPT ![NewId] = EnumImpl(<<<<v, d>>>>, "MessageImpl")]
  /\ hist' = [hist EXCEPT ![NewId] = [NoHist EXCEPT !.start = v]]
  /\ last' = [NoCall EXCEPT !.op = "new", !.rev = "object",
                            !.value = NewId, !.variant = v, !.data = d]
  /\ UNCHANGED arrays

\* the array literal [1, 2, 3] is evaluated in the Plaintext handler only
EncryptStep(o, r, rev) ==
  /\ Idle
  /\ Allocated(heap, o) /\ HasMethods(heap, o)
  /\ hist[o].encrypts < MaxCalls
  /\ heap' = r.heap
  /\ arrays' = IF r.heap # heap THEN arrays + 1 ELSE arrays
  /\ arrays' <= MaxArrs
  /\ hist' = [hist EXCEPT ![o].encrypts = @ + 1]
  /\ last' = [NoCall EXCEPT !.op = "encrypt", !.rev = rev, !.value = o,
                            !.matcher = EncryptMatcher,
                            !.subject = heap[o].props, !.res = r.res]

\* msg.encrypt()
Encrypt(o) == EncryptStep(o, encrypt(heap, o, Arr(arrays + 1)), "impl")

EncryptClass(o) == EncryptStep(o, encryptClass(heap, o, Arr(arrays + 1)), "class")

\* Enum.match(msg, { Encrypted: () => true, _: () => false }) of the tests
MatchImpl(o, m) ==
  /\ Match(o, m)

\* Enum.mutate called on a behaviour-attached value from outside its methods
MutateImpl(a, b) ==
  /\ Idle
  /\ Allocated(heap, a) /\ Allocated(heap, b)
  /\ heap' = Enum_mutate(heap, a, b)
  /\ hist' = [hist EXCEPT ![a].mutated = TRUE]
  /\ last' = [NoCall EXCEPT !.op = "mutate", !.rev = "object",
                            !.value = a, !.other = b]
  /\ UNCHANGED arrays

NextImpl ==
  \/ Continue
  \/ NewArray
  \/ \E v \in VariantNames, d \in DataArgs : ConstructImpl(v, d)
  \/ \E v \in VariantNames, d \in DataArgs : NewMessage(v, d)
  \/ \E o \in ObjIds : Encrypt(o)
  \/ \E o \in ObjIds : EncryptClass(o)
  \/ \E o \in ObjIds, m \in TestMatchers : MatchImpl(o, m)
  \/ \E a \in ObjIds, b \in ObjIds : MutateImpl(a, b)

SpecImpl == Init /\ [][NextImpl]_vars

\* ------------------------------------------------------ Option, Result
\* more payloads: a number, a boolean (0 is false), an Error object (a
\* reference) and a reference to a container; Str(0) is the empty string
Num(i) == [t |-> "number", v |-> i]

Bool(b) == [t |-> "boolean", v |-> b]

Error(i) == [t |-> "error", v |-> i]

Ref(o) == [t |-> "ref", v |-> o]

\* Option.Some(data): new OptionImpl({ Some: data })
Option_Some(data) == EnumImpl(<<<<"Some", data>>>>, "OptionImpl")

\* Option.None(): new OptionImpl({ None: null })
Option_None == EnumImpl(<<<<"None", Null>>>>, "OptionImpl")

\* a falsy test in place of `value == null`
Option_from_Falsy(value) ==
  IF value \in {Null, Undefined, Num(0), Str(0), Bool(0)}
    THEN Option_None
    ELSE Option_Some(value)

\* Option.from(value): value == null ? Option.None() : Option.Some(value)
Option_from(value) ==
  IF value \in {Null, Undefined} THEN Option_None ELSE Option_Some(value)

\* Result.Ok(data): new ResultImpl({ Ok: data })
Result_Ok(data) == EnumImpl(<<<<"Ok", data>>>>, "ResultImpl")

\* Result.Err(err): new ResultImpl({ Err: err })
Result_Err(err) == EnumImpl(<<<<"Err", err>>>>, "ResultImpl")

\* the matchers of the methods give a handler to both variants
OptionMatcher == [k \in {"Some", "None"} |-> "fn"]

ResultMatcher == [k \in {"Ok", "Err"} |-> "fn"]

\* a method returns `out`, having called its callback argument cb times
Done(h, out, res, cb) ==
  [heap |-> h, outcome |-> "return", out |-> out, msg |-> "", cb |-> cb,
   res |-> res]

\* a method throws: `out` is the value thrown, or undefined with the
\* message of the error constructed at the throw
Fail(h, out, msg, res, cb) ==
  [heap |-> h, outcome |-> "throw", out |-> out, msg |-> msg, cb |-> cb,
   res |-> res]

\* Enum.match itself threw inside the method
MatchFailed(h, res) == Fail(h, Undefined, res.err, res, 0)

\* Enum.mutate(this, other) with `other` a container made for the call
MutateFromNew(h, this, other) ==
  DropTmp(Enum_mutate(WithTmp(h, other), this, TmpId))

\* clone that returns the receiver
OptionImpl_clone_Same(h, this, new) ==
  LET res == Enum_match(h[this].props, OptionMatcher)
  IN IF res.kind # "return" THEN MatchFailed(h, res)
     ELSE Done(h, Ref(this), res, 0)

\* OptionImpl.clone(): the new Option is stored under the reference `new`
OptionImpl_clone(h, this, new) ==
  LET res == Enum_match(h[this].props, OptionMatcher)
  IN IF res.kind # "return" THEN MatchFailed(h, res)
     ELSE IF res.ret.h = "Some"
       THEN Done([h EXCEPT ![new] = Option_Some(res.ret.arg)], Ref(new), res, 0)
       ELSE Done([h EXCEPT ![new] = Option_None], Ref(new), res, 0)

\* OptionImpl.isSome()
OptionImpl_isSome(h, this) ==
  LET res == Enum_match(h[this].props, OptionMatcher)
  IN IF res.kind # "return" THEN MatchFailed(h, res)
     ELSE Done(h, Bool(IF res.ret.h = "Some" THEN 1 ELSE 0), res, 0)

\* the message of the Error constructed by unwrap() of None
UnwrapMessage == "Error: Called Option.unwrap() on a None value"

\* unwrap that returns null for None in place of throwing
OptionImpl_unwrap_Null(h, this) ==
  LET res == Enum_match(h[this].props, OptionMatcher)
  IN IF res.kind # "return" THEN MatchFailed(h, res)
     ELSE Done(h, res.ret.arg, res, 0)

\* OptionImpl.unwrap()
OptionImpl_unwrap(h, this) ==
  LET res == Enum_match(h[this].props, OptionMatcher)
  IN IF res.kind # "return" THEN MatchFailed(h, res)
     ELSE IF res.ret.h = "Some"
       THEN Done(h, res.ret.arg, res, 0)
       ELSE Fail(h, Undefined, UnwrapMessage, res, 0)

\* OptionImpl.unwrapOrElse(f), f returning `fallback`
OptionImpl_unwrapOrElse(h, this, fallback) ==
  LET res == Enum_match(h[this].props, OptionMatcher)
  IN IF res.kind # "return" THEN MatchFailed(h, res)
     ELSE IF res.ret.h = "Some"
       THEN Done(h, res.ret.arg, res, 0)
       ELSE Done(h, fallback, res, 1)

\* OptionImpl.unwrapOr(fallback): this.unwrapOrElse(() => fallback)
OptionImpl_unwrapOr(h, this, fallback) ==
  OptionImpl_unwrapOrElse(h, this, fallback)

\* getOrInsertWith that calls f and inserts whatever the receiver holds
OptionImpl_getOrInsertWith_Always(h, this, data) ==
  LET res == Enum_match(h[this].props, OptionMatcher)
  IN IF res.kind # "return" THEN MatchFailed(h, res)
     ELSE Done(MutateFromNew(h, this, Option_Some(data)), data, res, 1)

\* OptionImpl.getOrInsertWith(f), f returning `data`
OptionImpl_getOrInsertWith(h, this, data) ==
  LET res == Enum_match(h[this].props, OptionMatcher)
  IN IF res.kind # "return" THEN MatchFailed(h, res)
     ELSE IF res.ret.h = "None"
       THEN Done(MutateFromNew(h, this, Option_Some(data)), data, res, 1)
       ELSE Done(h, res.ret.arg, res, 0)

\* OptionImpl.getOrInsert(data): this.getOrInsertWith(() => data)
OptionImpl_getOrInsert(h, this, data) ==
  OptionImpl_getOrInsertWith(h, this, data)

\* take() that leaves the receiver alone
OptionImpl_take_Keep(h, this, new) == OptionImpl_clone(h, this, new)

\* OptionImpl.take()
OptionImpl_take(h, this, new) ==
  LET res == Enum_match(h[this].props, OptionMatcher)
  IN IF res.kind # "return" THEN MatchFailed(h, res)
     ELSE IF res.ret.h = "None"
       THEN Done([h EXCEPT ![new] = Option_None], Ref(new), res, 0)
       ELSE LET h1 == MutateFromNew(h, this, Option_None)
            IN Done([h1 EXCEPT ![new] = Option_Some(res.ret.arg)],
                    Ref(new), res, 0)

\* replace that returns the receiver in place of a clone of it
OptionImpl_replace_Alias(h, this, data, new) ==
  LET res == Enum_match(h[this].props, OptionMatcher)
  IN IF res.kind # "return" THEN MatchFailed(h, res)
     ELSE Done(MutateFromNew(h, this, Option_Some(data)), Ref(this), res, 0)

\* OptionImpl.replace(data)
OptionImpl_replace(h, this, data, new) ==
  LET oldOption == OptionImpl_clone(h, this, new)
  IN IF oldOption.outcome # "return" THEN oldOption
     ELSE [oldOption EXCEPT
             !.heap = MutateFromNew(oldOption.heap, this, Option_Some(data))]

\* ResultImpl.clone()
ResultImpl_clone(h, this, new) ==
  LET res == Enum_match(h[this].props, ResultMatcher)
  IN IF res.kind # "return" THEN MatchFailed(h, res)
     ELSE IF res.ret.h = "Ok"
       THEN Done([h EXCEPT ![new] = Result_Ok(res.ret.arg)], Ref(new), res, 0)
       ELSE Done([h EXCEPT ![new] = Result_Err(res.ret.arg)], Ref(new), res, 0)

\* ResultImpl.isOk()
ResultImpl_isOk(h, this) ==
  LET res == Enum_match(h[this].props, ResultMatcher)
  IN IF res.kind # "return" THEN MatchFailed(h, res)
     ELSE Done(h, Bool(IF res.ret.h = "Ok" THEN 1 ELSE 0), res, 0)

\* ResultImpl.ok(): Ok: (data) => Option.from(data), Err: () => Option.None()
ResultImpl_ok(h, this, new) ==
  LET res == Enum_match(h[this].props, ResultMatcher)
  IN IF res.kind # "return" THEN MatchFailed(h, res)
     ELSE IF res.ret.h = "Ok"
       THEN Done([h EXCEPT ![new] = Option_from(res.ret.arg)], Ref(new), res, 0)
       ELSE Done([h EXCEPT ![new] = Option_None], Ref(new), res, 0)

\* ResultImpl.err(): Ok: () => Option.None(), Err: (data) => Option.from(data)
ResultImpl_err(h, this, new) ==
  LET res == Enum_match(h[this].props, ResultMatcher)
  IN IF res.kind # "return" THEN MatchFailed(h, res)
     ELSE IF res.ret.h = "Ok"
       THEN Done([h EXCEPT ![new] = Option_None], Ref(new), res, 0)
       ELSE Done([h EXCEPT ![new] = Option_from(res.ret.arg)], Ref(new), res, 0)

\* unwrap() that throws a new Error in place of the payload
ResultImpl_unwrap_Wrapped(h, this) ==
  LET res == Enum_match(h[this].props, ResultMatcher)
  IN IF res.kind # "return" THEN MatchFailed(h, res)
     ELSE IF res.ret.h = "Ok"
       THEN Done(h, res.ret.arg, res, 0)
       ELSE Fail(h, Undefined, "Error: unwrap of Err", res, 0)

\* ResultImpl.unwrap(): Ok: (data) => data, Err: (err) => { throw err; }
ResultImpl_unwrap(h, this) ==
  LET res == Enum_match(h[this].props, ResultMatcher)
  IN IF res.kind # "return" THEN MatchFailed(h, res)
     ELSE IF res.ret.h = "Ok"
       THEN Done(h, res.ret.arg, res, 0)
       ELSE Fail(h, res.ret.arg, "", res, 0)

\* ResultImpl.unwrapOr(fallback): this.ok().unwrapOr(fallback); the Option
\* of ok() is garbage once the call has returned
ResultImpl_unwrapOr(h, this, fallback) ==
  LET opt == ResultImpl_ok(WithTmp(h, NoObj), this, TmpId)
  IN IF opt.outcome # "return" THEN [opt EXCEPT !.heap = h]
     ELSE LET r == OptionImpl_unwrapOr(opt.heap, TmpId, fallback)
          IN [r EXCEPT !.heap = DropTmp(r.heap), !.cb = 0]

\* ResultImpl.unwrapOrElse(fallback): Ok: (data) => data, Err: fallback;
\* the callback returns `fallback`
ResultImpl_unwrapOrElse(h, this, fallback) ==
  LET res == Enum_match(h[this].props, ResultMatcher)
  IN IF res.kind # "return" THEN MatchFailed(h, res)
     ELSE IF res.ret.h = "Ok"
       THEN Done(h, res.ret.arg, res, 0)
       ELSE Done(h, fallback, res, 1)

\* OptionImpl.isNone(): !this.isSome()
OptionImpl_isNone(h, this) ==
  LET r == OptionImpl_isSome(h, this)
  IN IF r.outcome # "return" THEN r
     ELSE [r EXCEPT !.out = Bool(1 - r.out.v)]

\* what `[...value]` collects from a generator that ran to its end
Items(r, items) ==
  [heap |-> r.heap, outcome |-> r.outcome, out |-> Undefined, msg |-> r.msg,
   cb |-> 0, res |-> r.res, items |-> items]

\* an iterator that takes the payload out of the receiver
OptionImpl_iterator_Drain(h, this) ==
  LET s == OptionImpl_isSome(h, this)
      u == OptionImpl_unwrap(h, this)
  IN IF s.outcome = "return" /\ s.out = Bool(1)
       THEN Items([u EXCEPT !.heap = MutateFromNew(h, this, Option_None)],
                  <<u.out>>)
       ELSE Items(s, << >>)

\* OptionImpl[Symbol.iterator], run to its end by `[...option]`:
\* if (this.isSome()) yield this.unwrap();
OptionImpl_iterator(h, this) ==
  LET s == OptionImpl_isSome(h, this)
      u == OptionImpl_unwrap(h, this)
  IN IF s.outcome = "return" /\ s.out = Bool(1)
       THEN Items(u, IF u.outcome = "return" THEN <<u.out>> ELSE << >>)
       ELSE Items(s, << >>)

\* ResultImpl[Symbol.iterator], run to its end by `[...result]`:
\* if (this.isOk()) yield this.unwrap();
ResultImpl_iterator(h, this) ==
  LET s == ResultImpl_isOk(h, this)
      u == ResultImpl_unwrap(h, this)
  IN IF s.outcome = "return" /\ s.out = Bool(1)
       THEN Items(u, IF u.outcome = "return" THEN <<u.out>> ELSE << >>)
       ELSE Items(s, << >>)

\* map that wraps the result of f with Option.from
OptionImpl_map_From(h, this, f, new) ==
  LET res == Enum_match(h[this].props, OptionMatcher)
  IN IF res.kind # "return" THEN MatchFailed(h, res)
     ELSE IF res.ret.h = "None"
       THEN Done([h EXCEPT ![new] = Option_None], Ref(new), res, 0)
       ELSE Done([h EXCEPT ![new] = Option_from(f[res.ret.arg])],
                 Ref(new), res, 1)

\* OptionImpl.map(f): None: () => Option.None(),
\* Some: (data) => Option.Some(f(data)); f is a function of the payloads
OptionImpl_map(h, this, f, new) ==
  LET res == Enum_match(h[this].props, OptionMatcher)
  IN IF res.kind # "return" THEN MatchFailed(h, res)
     ELSE IF res.ret.h = "None"
       THEN Done([h EXCEPT ![new] = Option_None], Ref(new), res, 0)
       ELSE Done([h EXCEPT ![new] = Option_Some(f[res.ret.arg])],
                 Ref(new), res, 1)

\* andThen that calls f whatever the receiver holds
OptionImpl_andThen_Eager(h, this, f, new) ==
  LET res == Enum_match(h[this].props, OptionMatcher)
  IN IF res.kind # "return" THEN MatchFailed(h, res)
     ELSE Done(h, f, res, 1)

\* OptionImpl.andThen(f): None: () => Option.None(), Some: f; the call of
\* f returns the reference f
OptionImpl_andThen(h, this, f, new) ==
  LET res == Enum_match(h[this].props, OptionMatcher)
  IN IF res.kind # "return" THEN MatchFailed(h, res)
     ELSE IF res.ret.h = "None"
       THEN Done([h EXCEPT ![new] = Option_None], Ref(new), res, 0)
       ELSE Done(h, f, res, 1)

\* OptionImpl.and(other): this.andThen(() => other)
OptionImpl_and(h, this, other, new) == OptionImpl_andThen(h, this, other, new)

\* orElse with the two arms exchanged
OptionImpl_orElse_Swapped(h, this, f) ==
  LET res == Enum_match(h[this].props, OptionMatcher)
  IN IF res.kind # "return" THEN MatchFailed(h, res)
     ELSE IF res.ret.h = "Some"
       THEN Done(h, f, res, 1)
       ELSE Done(h, Ref(this), res, 0)

\* OptionImpl.orElse(f): Some: () => this, None: f; the call of f returns
\* the reference f
OptionImpl_orElse(h, this, f) ==
  LET res == Enum_match(h[this].props, OptionMatcher)
  IN IF res.kind # "return" THEN MatchFailed(h, res)
     ELSE IF res.ret.h = "Some"
       THEN Done(h, Ref(this), res, 0)
       ELSE Done(h, f, res, 1)

\* OptionImpl.or(other): this.orElse(() => other)
OptionImpl_or(h, this, other) == OptionImpl_orElse(h, this, other)

\* xor that returns the receiver whenever the receiver is Some
OptionImpl_xor_Or(h, this, other, new) ==
  LET res == Enum_match(h[this].props, OptionMatcher)
  IN IF res.kind # "return" THEN MatchFailed(h, res)
     ELSE IF res.ret.h = "Some"
       THEN Done(h, Ref(this), res, 0)
       ELSE Done(h, Ref(other), res, 0)

\* OptionImpl.xor(other): Some: () => other.isNone() ? this : Option.None(),
\* None: () => other
OptionImpl_xor(h, this, other, new) ==
  LET res == Enum_match(h[this].props, OptionMatcher)
      none == OptionImpl_isNone(h, other)
  IN IF res.kind # "return" THEN MatchFailed(h, res)
     ELSE IF res.ret.h = "Some"
       THEN IF none.outcome # "return" THEN none
            ELSE IF none.out = Bool(1)
              THEN Done(h, Ref(this), res, 0)
              ELSE Done([h EXCEPT ![new] = Option_None], Ref(new), res, 0)
       ELSE Done(h, Ref(other), res, 0)

\* filter that returns a copy of the receiver
OptionImpl_filter_Copy(h, this, predicate, new) ==
  LET res == Enum_match(h[this].props, OptionMatcher)
  IN IF res.kind # "return" THEN MatchFailed(h, res)
     ELSE IF res.ret.h = "Some" /\ predicate = Bool(1)
       THEN Done([h EXCEPT ![new] = Option_Some(res.ret.arg)], Ref(new), res, 1)
       ELSE IF res.ret.h = "Some"
         THEN Done([h EXCEPT ![new] = Option_None], Ref(new), res, 1)
         ELSE Done(h, Ref(this), res, 0)

\* OptionImpl.filter(predicate): None: () => this,
\* Some: (data) => predicate(data) ? this : Option.None(); the call of
\* the predicate returns the boolean `predicate`
OptionImpl_filter(h, this, predicate, new) ==
  LET res == Enum_match(h[this].props, OptionMatcher)
  IN IF res.kind # "return" THEN MatchFailed(h, res)
     ELSE IF res.ret.h = "None"
       THEN Done(h, Ref(this), res, 0)
       ELSE IF predicate = Bool(1)
         THEN Done(h, Ref(this), res, 1)
         ELSE Done([h EXCEPT ![new] = Option_None], Ref(new), res, 1)

\* okOrElse that calls err before it looks at the receiver
OptionImpl_okOrElse_Eager(h, this, err, new) ==
  LET res == Enum_match(h[this].props, OptionMatcher)
  IN IF res.kind # "return" THEN MatchFailed(h, res)
     ELSE IF res.ret.h = "Some"
       THEN Done([h EXCEPT ![new] = Result_Ok(res.ret.arg)], Ref(new), res, 1)
       ELSE Done([h EXCEPT ![new] = Result_Err(err)], Ref(new), res, 1)

\* OptionImpl.okOrElse(err): Some: (data) => Result.Ok(data),
\* None: () => Result.Err(err()); the call of err returns the Error `err`
OptionImpl_okOrElse(h, this, err, new) ==
  LET res == Enum_match(h[this].props, OptionMatcher)
  IN IF res.kind # "return" THEN MatchFailed(h, res)
     ELSE IF res.ret.h = "Some"
       THEN Done([h EXCEPT ![new] = Result_Ok(res.ret.arg)], Ref(new), res, 0)
       ELSE Done([h EXCEPT ![new] = Result_Err(err)], Ref(new), res, 1)

\* map that calls f on the payload of either variant
ResultImpl_map_Both(h, this, f, new) ==
  LET res == Enum_match(h[this].props, ResultMatcher)
  IN IF res.kind # "return" THEN MatchFailed(h, res)
     ELSE IF res.ret.h = "Ok"
       THEN Done([h EXCEPT ![new] = Result_Ok(f[res.ret.arg])], Ref(new), res, 1)
       ELSE Done([h EXCEPT ![new] = Result_Err(f[res.ret.arg])], Ref(new), res, 1)

\* ResultImpl.map(f): Ok: (data) => Result.Ok(f(data)),
\* Err: (err) => Result.Err(err)
ResultImpl_map(h, this, f, new) ==
  LET res == Enum_match(h[this].props, ResultMatcher)
  IN IF res.kind # "return" THEN MatchFailed(h, res)
     ELSE IF res.ret.h = "Ok"
       THEN Done([h EXCEPT ![new] = Result_Ok(f[res.ret.arg])], Ref(new), res, 1)
       ELSE Done([h EXCEPT ![new] = Result_Err(res.ret.arg)], Ref(new), res, 0)

\* ResultImpl.mapErr(f): Ok: (data) => Result.Ok(data),
\* Err: (err) => Result.Err(f(err))
ResultImpl_mapErr(h, this, f, new) ==
  LET res == Enum_match(h[this].props, ResultMatcher)
  IN IF res.kind # "return" THEN MatchFailed(h, res)
     ELSE IF res.ret.h = "Ok"
       THEN Done([h EXCEPT ![new] = Result_Ok(res.ret.arg)], Ref(new), res, 0)
       ELSE Done([h EXCEPT ![new] = Result_Err(f[res.ret.arg])], Ref(new), res, 1)

\* OptionImpl.transpose(): None: () => Result.Ok(Option.None()),
\* Some: (result) => result.map((data) => Option.Some(data)); the callback
\* of map returns the reference new2 of the Option it makes
OptionImpl_transpose(h, this, new1, new2) ==
  LET res == Enum_match(h[this].props, OptionMatcher)
  IN IF res.kind # "return" THEN MatchFailed(h, res)
     ELSE IF res.ret.h = "None"
       THEN Done([h EXCEPT ![new2] = Option_None,
                           ![new1] = Result_Ok(Ref(new2))],
                 Ref(new1), res, 0)
       ELSE LET result == res.ret.arg.v
                data == h[result].props[1][2]
                r == ResultImpl_map(h, result, [x \in {data} |-> Ref(new2)], new1)
            IN IF r.cb = 1
                 THEN [r EXCEPT !.heap = [r.heap EXCEPT ![new2] = Option_Some(data)]]
                 ELSE r

\* transpose that turns every Err into None
ResultImpl_transpose_DropErr(h, this, new1, new2) ==
  LET res == Enum_match(h[this].props, ResultMatcher)
  IN IF res.kind # "return" THEN MatchFailed(h, res)
     ELSE Done([h EXCEPT ![new1] = Option_None], Ref(new1), res, 0)

\* ResultImpl.transpose(): Err: (err) => Option.Some(Result.Err(err)),
\* Ok: (option) => option.map((data) => Result.Ok(data)); the callback of
\* map returns the reference new2 of the Result it makes
ResultImpl_transpose(h, this, new1, new2) ==
  LET res == Enum_match(h[this].props, ResultMatcher)
  IN IF res.kind # "return" THEN MatchFailed(h, res)
     ELSE IF res.ret.h = "Err"
       THEN Done([h EXCEPT ![new2] = Result_Err(res.ret.arg),
                           ![new1] = Option_Some(Ref(new2))],
                 Ref(new1), res, 0)
       ELSE LET option == res.ret.arg.v
                data == IF h[option].props = << >> THEN Undefined
                        ELSE h[option].props[1][2]
                r == OptionImpl_map(h, option, [x \in {data} |-> Ref(new2)], new1)
            IN IF r.cb = 1
                 THEN [r EXCEPT !.heap = [r.heap EXCEPT ![new2] = Result_Ok(data)]]
                 ELSE r

RECURSIVE Tree(_, _)
\* a value as assertEquals sees it: a reference to a container is the
\* class, the key and the payload of the container, to any depth
Tree(h, v) ==
  IF v.t # "ref" THEN v
  ELSE IF h[v.v].props = << >>
    THEN [proto |-> h[v.v].proto, key |-> "", val |-> Undefined]
    ELSE [proto |-> h[v.v].proto, key |-> h[v.v].props[1][1],
          val |-> Tree(h, h[v.v].props[1][2])]

\* payloads a caller wraps: null, the number 0, an array it holds
OptData == {Null, Num(0)} \cup {Arr(i) : i \in 1..arrays}

\* values a caller passes to Option.from: also undefined, "" and false
FromArgs == OptData \cup {Undefined, Str(0), Bool(0)}

\* the Error objects a caller holds
Errors == {Error(1), Error(2)}

\* every payload a container can hold
AllData == (FromArgs \ {Undefined}) \cup Errors

\* the functions a caller passes to map: x => c for a payload c, x => x,
\* and x => (x === null ? 0 : null); none returns undefined
Fns ==
  {[x \in AllData |-> c] : c \in OptData}
    \cup {[x \in AllData |-> x],
          [x \in AllData |-> IF x = Null THEN Num(0) ELSE Null]}

IsOption(h, o) == Allocated(h, o) /\ h[o].proto = "OptionImpl"

IsResult(h, o) == Allocated(h, o) /\ h[o].proto = "ResultImpl"

\* a caller makes a container with a static function of Option or Result
Make(op, d, obj) ==
  /\ Idle
  /\ FreeIds # {}
  /\ heap' = [heap EXCEPT ![NewId] = obj]
  /\ last' = [NoCall EXCEPT !.op = op, !.value = NewId, !.data = d,
                            !.outcome = "return", !.out = Ref(NewId)]
  /\ UNCHANGED <<arrays, hist>>

OptionSome(d) == Make("Option.Some", d, Option_Some(d))

OptionNone == Make("Option.None", Undefined, Option_None)

OptionFrom(v) == Make("Option.from", v, Option_from(v))

ResultOk(d) == Make("Result.Ok", d, Result_Ok(d))

ResultErr(e) == Make("Result.Err", e, Result_Err(e))

\* a caller calls the method `op` of container o with argument d; r is
\* what the method does
Call(op, o, d, r) ==
  /\ Idle
  /\ heap' = r.heap
  /\ last' = [NoCall EXCEPT !.op = op, !.value = o, !.data = d,
                            !.subject = heap[o].props, !.res = r.res,
                            !.outcome = r.outcome, !.out = r.out,
                            !.msg = r.msg, !.cb = r.cb]
  /\ UNCHANGED <<arrays, hist>>

OptClone(o) ==
  /\ IsOption(heap, o) /\ FreeIds # {}
  /\ Call("Option.clone", o, Undefined, OptionImpl_clone(heap, o, NewId))

OptIsSome(o) ==
  /\ IsOption(heap, o)
  /\ Call("Option.isSome", o, Undefined, OptionImpl_isSome(heap, o))

OptUnwrap(o) ==
  /\ IsOption(heap, o)
  /\ Call("Option.unwrap", o, Undefined, OptionImpl_unwrap(heap, o))

OptUnwrapOr(o, d) ==
  /\ IsOption(heap, o)
  /\ Call("Option.unwrapOr", o, d, OptionImpl_unwrapOr(heap, o, d))

OptUnwrapOrElse(o, d) ==
  /\ IsOption(heap, o)
  /\ Call("Option.unwrapOrElse", o, d, OptionImpl_unwrapOrElse(heap, o, d))

OptGetOrInsert(o, d) ==
  /\ IsOption(heap, o)
  /\ Call("Option.getOrInsert", o, d, OptionImpl_getOrInsert(heap, o, d))

OptGetOrInsertWith(o, d) ==
  /\ IsOption(heap, o)
  /\ Call("Option.getOrInsertWith", o, d,
          OptionImpl_getOrInsertWith(heap, o, d))

OptTake(o) ==
  /\ IsOption(heap, o) /\ FreeIds # {}
  /\ Call("Option.take", o, Undefined, OptionImpl_take(heap, o, NewId))

OptReplace(o, d) ==
  /\ IsOption(heap, o) /\ FreeIds # {}
  /\ Call("Option.replace", o, d, OptionImpl_replace(heap, o, d, NewId))

ResClone(o) ==
  /\ IsResult(heap, o) /\ FreeIds # {}
  /\ Call("Result.clone", o, Undefined, ResultImpl_clone(heap, o, NewId))

ResIsOk(o) ==
  /\ IsResult(heap, o)
  /\ Call("Result.isOk", o, Undefined, ResultImpl_isOk(heap, o))

ResOk(o) ==
  /\ IsResult(heap, o) /\ FreeIds # {}
  /\ Call("Result.ok", o, Undefined, ResultImpl_ok(heap, o, NewId))

ResErr(o) ==
  /\ IsResult(heap, o) /\ FreeIds # {}
  /\ Call("Result.err", o, Undefined, ResultImpl_err(heap, o, NewId))

ResUnwrap(o) ==
  /\ IsResult(heap, o)
  /\ Call("Result.unwrap", o, Undefined, ResultImpl_unwrap(heap, o))

ResUnwrapOr(o, d) ==
  /\ IsResult(heap, o)
  /\ Call("Result.unwrapOr", o, d, ResultImpl_unwrapOr(heap, o, d))

ResUnwrapOrElse(o, d) ==
  /\ IsResult(heap, o)
  /\ Call("Result.unwrapOrElse", o, d, ResultImpl_unwrapOrElse(heap, o, d))

\* a caller calls a method of o that takes the function f
CallFn(op, o, f, r) ==
  /\ Idle
  /\ heap' = r.heap
  /\ last' = [NoCall EXCEPT !.op = op, !.value = o, !.fn = f,
                            !.subject = heap[o].props, !.res = r.res,
                            !.outcome = r.outcome, !.out = r.out,
                            !.msg = r.msg, !.cb = r.cb]
  /\ UNCHANGED <<arrays, hist>>

OptMap(o, f) ==
  /\ IsOption(heap, o) /\ FreeIds # {}
  /\ CallFn("Option.map", o, f, OptionImpl_map(heap, o, f, NewId))

\* the reference a method stores its new container under; a method that
\* makes a container is called only while the heap has room for it
Fresh == IF FreeIds = {} THEN TmpId ELSE NewId

OptAnd(o, p) ==
  /\ IsOption(heap, o) /\ IsOption(heap, p)
  /\ heap[o] = Option_None => FreeIds # {}
  /\ Call("Option.and", o, Ref(p), OptionImpl_and(heap, o, Ref(p), Fresh))

OptAndThen(o, p) ==
  /\ IsOption(heap, o) /\ IsOption(heap, p)
  /\ heap[o] = Option_None => FreeIds # {}
  /\ Call("Option.andThen", o, Ref(p),
          OptionImpl_andThen(heap, o, Ref(p), Fresh))

OptOr(o, p) ==
  /\ IsOption(heap, o) /\ IsOption(heap, p)
  /\ Call("Option.or", o, Ref(p), OptionImpl_or(heap, o, Ref(p)))

OptOrElse(o, p) ==
  /\ IsOption(heap, o) /\ IsOption(heap, p)
  /\ Call("Option.orElse", o, Ref(p), OptionImpl_orElse(heap, o, Ref(p)))

\* xor makes a container when the receiver and other are both Some
OptXor(o, p) ==
  /\ IsOption(heap, o) /\ IsOption(heap, p)
  /\ (heap[o] # Option_None /\ heap[p] # Option_None) => FreeIds # {}
  /\ Call("Option.xor", o, Ref(p), OptionImpl_xor(heap, o, p, Fresh))

OptFilter(o, b) ==
  /\ IsOption(heap, o)
  /\ (heap[o] # Option_None /\ b = Bool(0)) => FreeIds # {}
  /\ Call("Option.filter", o, b, OptionImpl_filter(heap, o, b, Fresh))

OptOkOrElse(o, e) ==
  /\ IsOption(heap, o) /\ FreeIds # {}
  /\ Call("Option.okOrElse", o, e, OptionImpl_okOrElse(heap, o, e, NewId))

ResMap(o, f) ==
  /\ IsResult(heap, o) /\ FreeIds # {}
  /\ CallFn("Result.map", o, f, ResultImpl_map(heap, o, f, NewId))

ResMapErr(o, f) ==
  /\ IsResult(heap, o) /\ FreeIds # {}
  /\ CallFn("Result.mapErr", o, f, ResultImpl_mapErr(heap, o, f, NewId))

\* [...value]: the caller collects what the iterator r of o yields
Spread(op, o, r) ==
  /\ Idle
  /\ heap' = r.heap
  /\ last' = [NoCall EXCEPT !.op = op, !.value = o,
                            !.subject = heap[o].props, !.res = r.res,
                            !.outcome = r.outcome, !.msg = r.msg,
                            !.items = r.items]
  /\ UNCHANGED <<arrays, hist>>

OptIterate(o) ==
  /\ IsOption(heap, o)
  /\ Spread("Option.iterate", o, OptionImpl_iterator(heap, o))

ResIterate(o) ==
  /\ IsResult(heap, o)
  /\ Spread("Result.iterate", o, ResultImpl_iterator(heap, o))

\* Enum.mutate(a, b) on two Options or two Results
MutateOpt(a, b) ==
  /\ Idle
  /\ Allocated(heap, a) /\ Allocated(heap, b)
  /\ heap[a].proto = heap[b].proto
  /\ heap' = Enum_mutate(heap, a, b)
  /\ last' = [NoCall EXCEPT !.op = "mutate", !.rev = "object",
                            !.value = a, !.other = b,
                            !.subject = heap[a].props]
  /\ UNCHANGED <<arrays, hist>>

\* the caller drops its last reference to o: the container is collected
Drop(o) ==
  /\ Idle
  /\ Allocated(heap, o)
  /\ \A p \in ObjIds : \A i \in 1..Len(heap[p].props) :
       heap[p].props[i][2] # Ref(o)
  /\ heap' = [heap EXCEPT ![o] = NoObj]
  /\ last' = [NoCall EXCEPT !.op = "drop", !.value = o]
  /\ UNCHANGED <<arrays, hist>>

\* the caller of the Option and Result functions holds one array
InitOpt ==
  /\ heap = [o \in ObjIds |-> NoObj]
  /\ arrays = 1
  /\ hist = [o \in ObjIds |-> NoHist]
  /\ last = [NoCall EXCEPT !.pre = [o \in ObjIds |-> NoObj]]

\* the containers a transposition makes are garbage once the caller has
\* compared the result: they are stored under references of their own
Scratch(h) ==
  [o \in DOMAIN h \cup {TmpId - i : i \in 1..4} |->
     IF o \in DOMAIN h THEN h[o] ELSE NoObj]

\* o holds no container
Plain(h, o) ==
  \A i \in 1..Len(h[o].props) : h[o].props[i][2].t # "ref"

\* o is an Option<Result<U, E>>: None, or Some of a Result of plain data
IsOptionOfResult(h, o) ==
  /\ IsOption(h, o)
  /\ \/ h[o] = Option_None
     \/ \E r \in ObjIds :
          h[o] = Option_Some(Ref(r)) /\ IsResult(h, r) /\ Plain(h, r)

\* o is a Result<Option<U>, E>: Err(e), or Ok of an Option of plain data
IsResultOfOption(h, o) ==
  /\ IsResult(h, o)
  /\ \/ \E e \in Errors : h[o] = Result_Err(e)
     \/ \E p \in ObjIds :
          h[o] = Result_Ok(Ref(p)) /\ IsOption(h, p) /\ Plain(h, p)

\* Option.Some(result)
WrapSome(r) ==
  /\ IsResult(heap, r) /\ Plain(heap, r)
  /\ Make("Option.Some", Ref(r), Option_Some(Ref(r)))

\* Result.Ok(option)
WrapOk(p) ==
  /\ IsOption(heap, p) /\ Plain(heap, p)
  /\ Make("Result.Ok", Ref(p), Result_Ok(Ref(p)))

\* the caller compares what a transposition returns, r, with a literal
Compare(op, o, r) ==
  /\ Idle
  /\ last' = [NoCall EXCEPT !.op = op, !.value = o,
                            !.subject = heap[o].props, !.res = r.res,
                            !.outcome = r.outcome, !.msg = r.msg,
                            !.cb = r.cb, !.out = Tree(r.heap, r.out)]
  /\ UNCHANGED <<heap, arrays, hist>>

\* option.transpose()
OptTranspose(o) ==
  /\ IsOptionOfResult(heap, o)
  /\ Compare("Option.transpose", o,
             OptionImpl_transpose(Scratch(heap), o, TmpId - 1, TmpId - 2))

\* result.transpose()
ResTranspose(o) ==
  /\ IsResultOfOption(heap, o)
  /\ Compare("Result.transpose", o,
             ResultImpl_transpose(Scratch(heap), o, TmpId - 1, TmpId - 2))

\* Options of Results and Results of Options, and their transpositions
NextNest ==
  \/ Continue
  \/ \E d \in OptData : OptionSome(d)
  \/ OptionNone
  \/ \E d \in OptData : ResultOk(d)
  \/ \E e \in Errors : ResultErr(e)
  \/ \E r \in ObjIds : WrapSome(r)
  \/ \E p \in ObjIds : WrapOk(p)
  \/ \E o \in ObjIds : OptTranspose(o)
  \/ \E o \in ObjIds : ResTranspose(o)
  \/ \E o \in ObjIds : Drop(o)

SpecNest == InitOpt /\ [][NextNest]_vars

NextOpt ==
  \/ Continue
  \/ \E d \in OptData : OptionSome(d)
  \/ OptionNone
  \/ \E v \in FromArgs : OptionFrom(v)
  \/ \E d \in OptData : ResultOk(d)
  \/ \E e \in Errors : ResultErr(e)
  \/ \E o \in ObjIds : OptClone(o)
  \/ \E o \in ObjIds : OptIsSome(o)
  \/ \E o \in ObjIds : OptUnwrap(o)
  \/ \E o \in ObjIds, d \in OptData : OptUnwrapOr(o, d)
  \/ \E o \in ObjIds, d \in OptData : OptUnwrapOrElse(o, d)
  \/ \E o \in ObjIds, d \in OptData : OptGetOrInsert(o, d)
  \/ \E o \in ObjIds, d \in OptData : OptGetOrInsertWith(o, d)
  \/ \E o \in ObjIds : OptTake(o)
  \/ \E o \in ObjIds, d \in OptData : OptReplace(o, d)
  \/ \E o \in ObjIds : ResClone(o)
  \/ \E o \in ObjIds : ResIsOk(o)
  \/ \E o \in ObjIds : ResOk(o)
  \/ \E o \in ObjIds : ResErr(o)
  \/ \E o \in ObjIds : ResUnwrap(o)
  \/ \E o \in ObjIds, d \in OptData : ResUnwrapOr(o, d)
  \/ \E o \in ObjIds, d \in OptData : ResUnwrapOrElse(o, d)
  \/ \E o \in ObjIds, f \in Fns : OptMap(o, f)
  \/ \E o \in ObjIds, p \in ObjIds : OptAnd(o, p)
  \/ \E o \in ObjIds, p \in ObjIds : OptAndThen(o, p)
  \/ \E o \in ObjIds, p \in ObjIds : OptOr(o, p)
  \/ \E o \in ObjIds, p \in ObjIds : OptOrElse(o, p)
  \/ \E o \in ObjIds, p \in ObjIds : OptXor(o, p)
  \/ \E o \in ObjIds, b \in {Bool(0), Bool(1)} : OptFilter(o, b)
  \/ \E o \in ObjIds, e \in Errors : OptOkOrElse(o, e)
  \/ \E o \in ObjIds, f \in Fns : ResMap(o, f)
  \/ \E o \in ObjIds, e \in Errors : ResMapErr(o, [x \in AllData |-> e])
  \/ \E o \in ObjIds : ResMapErr(o, [x \in AllData |-> x])
  \/ \E o \in ObjIds : OptIterate(o)
  \/ \E o \in ObjIds : ResIterate(o)
  \/ \E a \in ObjIds, b \in ObjIds : MutateOpt(a, b)
  \/ \E o \in ObjIds : Drop(o)

SpecOpt == InitOpt /\ [][NextOpt]_vars

\* ------------------------------------------------------------------ memo
\* memo(f): the function it returns closes over `let cache`, which starts
\* undefined; the closure is a container of the heap with the one key
Memo_closure == [props |-> <<<<"cache", Undefined>>>>, proto |-> "memo"]

\* a call of the function memo(f) returned:
\* if (cache === undefined) cache = f(); return cache;
\* a call of f would return `ret` this time
memo(h, this, ret) ==
  LET cache == Get(h[this].props, "cache")
  IN IF cache = Undefined
       THEN Done([h EXCEPT ![this].props = Set(@, "cache", ret)], ret,
                 NoResult, 1)
       ELSE Done(h, cache, NoResult, 0)

\* const g = memo(f)
Memo ==
  /\ Idle
  /\ FreeIds # {}
  /\ heap' = [heap EXCEPT ![NewId] = Memo_closure]
  /\ hist' = [hist EXCEPT ![NewId] = NoHist]
  /\ last' = [NoCall EXCEPT !.op = "memo", !.value = NewId,
                            !.outcome = "return", !.out = Ref(NewId)]
  /\ UNCHANGED arrays

\* g(), with f a function that returns a payload or undefined: hist counts the calls of g and of f and keeps what the first call
\* of f returned
CallMemo(o, ret) ==
  /\ Idle
  /\ heap[o].proto = "memo"
  /\ hist[o].uses < MaxCalls
  /\ LET r == memo(heap, o, ret)
     IN /\ heap' = r.heap
        /\ hist' = [hist EXCEPT
                      ![o].uses = @ + 1,
                      ![o].calls = @ + r.cb,
                      ![o].first = IF hist[o].calls = 0 /\ r.cb = 1
                                     THEN ret ELSE @]
        /\ last' = [NoCall EXCEPT !.op = "memo.call", !.value = o,
                                  !.data = ret, !.subject = heap[o].props,
                                  !.outcome = r.outcome, !.out = r.out,
                                  !.cb = r.cb]
  /\ UNCHANGED arrays

NextMemo ==
  \/ Continue
  \/ Memo
  \/ \E o \in ObjIds, ret \in OptData \cup {Undefined} : CallMemo(o, ret)

SpecMemo == InitOpt /\ [][NextMemo]_vars

\* ================================================================ claims
\* the container a call was made on, as it was when the call was made
Subject == last.subject

\* the call was made on a container of the heap, not on a cast literal
OnHeap == last.value \in ObjIds

\* one handler per declared variant
Exhaustive(m) == \A v \in VariantNames : MGet(m, v) = "fn"

\* the error is the non-exhaustive-matcher error of either revision
NonExhaustive(res) ==
  /\ res.kind = "throw"
  /\ res.err \in {NonExhaustiveMessage, "NonExhaustiveMatcherError"}

\* C1: in every state reached by factory constructions and Enum.mutate
\* calls on any containers, every container has exactly one declared
\* variant key present and every other declared variant key absent.
C1_SingleVariant ==
  \A o \in ObjIds : Allocated(heap, o) => WellFormed(heap[o].props)

\* C2: the constructor of variant v called with data d returns a container
\* whose only key is v, bound to d, and bound to null (never undefined)
\* when d is undefined or missing.
C2_FactoryOneVariant ==
  last.op = "factory" =>
    LET made == heap[last.value].props
    IN /\ Keys(made) = <<last.variant>>
       /\ Get(made, last.variant) =
            (IF last.data = Undefined THEN Null ELSE last.data)
       /\ Present(made, last.variant)
       /\ WellFormed(made)

C2_Witness ==
  /\ last.op = "factory"
  /\ last.rev = "namespace"
  /\ last.variant = "Quit"
  /\ last.data = Undefined
  /\ heap[last.value].props = <<<<"Quit", Null>>>>

\* C3: on a well-formed value and an exhaustive matcher, match calls
\* exactly one handler, the one of the active variant, with the payload of
\* the active variant, and returns its result; the wildcard is not called.
C3_MatchActiveHandler ==
  (last.op = "match" /\ WellFormed(Subject) /\ Exhaustive(last.matcher)) =>
    LET call == [h |-> ActiveVariant(Subject), arg |-> Payload(Subject)]
    IN /\ last.res.kind = "return"
       /\ last.res.calls = <<call>>
       /\ last.res.ret = call

C3_Witness ==
  /\ last.op = "match"
  /\ OnHeap
  /\ WellFormed(Subject)
  /\ Exhaustive(last.matcher)
  /\ MGet(last.matcher, Wildcard) = "fn"
  /\ last.res.ret = [h |-> "Encrypted", arg |-> Arr(1)]

\* C4: on a well-formed value and a matcher without a handler for the
\* active variant but with the wildcard, match calls the wildcard exactly
\* once, calls no variant handler and returns the wildcard's result.
C4_MatchWildcard ==
  (/\ last.op = "match"
   /\ WellFormed(Subject)
   /\ MGet(last.matcher, ActiveVariant(Subject)) # "fn"
   /\ MGet(last.matcher, Wildcard) = "fn") =>
    /\ last.res.kind = "return"
    /\ Len(last.res.calls) = 1
    /\ last.res.calls[1].h = Wildcard
    /\ last.res.ret = last.res.calls[1]

C4_Witness ==
  /\ last.op = "match"
  /\ last.rev = "namespace"
  /\ OnHeap
  /\ WellFormed(Subject)
  /\ ActiveVariant(Subject) = "Quit"
  /\ MGet(last.matcher, "Quit") = "absent"
  /\ MGet(last.matcher, "Plaintext") = "fn"
  /\ last.res.ret.h = Wildcard

Unhandled(props, m) ==
  \A i \in 1..Len(props) :
    props[i][2] # Undefined => MGet(m, props[i][1]) # "fn"

C8_MutateTakesOther ==
  (/\ last.op = "mutate"
   /\ last.value # last.other
   /\ WellFormed(last.pre[last.value].props)
   /\ WellFormed(last.pre[last.other].props)) =>
    LET a == heap[last.value]
        b == last.pre[last.other]
    IN /\ a.proto = last.pre[last.value].proto
       /\ WellFormed(a.props)
       /\ ActiveVariant(a.props) = ActiveVariant(b.props)
       /\ Payload(a.props) = Payload(b.props)
       /\ a.props = b.props

C8_Witness ==
  /\ last.op = "mutate"
  /\ last.value # last.other
  /\ last.pre[last.value].props = <<<<"Plaintext", Str(1)>>>>
  /\ last.pre[last.other].props = <<<<"Encrypted", Arr(1)>>>>
  /\ heap[last.value].props = <<<<"Encrypted", Arr(1)>>>>

\* C9: Enum.mutate(a, b) changes container a only: b keeps its active
\* variant and payload, and every container other than a is unchanged.
C9_MutateFrame ==
  last.op = "mutate" =>
    /\ heap[last.other].props = last.pre[last.other].props
    /\ \A o \in ObjIds \ {last.value} : heap[o] = last.pre[o]

\* C10: a behaviour-attached Message that only encrypt() has been called
\* on, at least once, is Encrypted if it was constructed as Plaintext and
\* has the variant it was constructed with otherwise; it is not Plaintext,
\* the match inside encrypt returned, and its methods are still there.
C10_EncryptOnce ==
  /\ \A o \in ObjIds :
       (Allocated(heap, o) /\ ~hist[o].mutated /\ hist[o].encrypts >= 1) =>
         /\ WellFormed(heap[o].props)
         /\ ActiveVariant(heap[o].props) =
              (IF hist[o].start = "Plaintext" THEN "Encrypted" ELSE hist[o].start)
         /\ ~Present(heap[o].props, "Plaintext")
         /\ HasMethods(heap, o)
  /\ last.op = "encrypt" =>
       /\ last.res.kind = "return"
       /\ Len(last.res.calls) = 1

C10_Witness ==
  \E o \in ObjIds :
    /\ Allocated(heap, o)
    /\ ~hist[o].mutated
    /\ hist[o].start = "Plaintext"
    /\ hist[o].encrypts = MaxCalls
    /\ ActiveVariant(heap[o].props) = "Encrypted"
    /\ last.op = "encrypt"
    /\ last.value = o
    /\ last.res.ret.h = Wildcard

\* C11: every behaviour-attached value has exactly one own enumerable key,
\* a declared variant, and the key scan of match visits that key only (no
\* attached method), after construction and after any Enum.mutate on it.
C11_OneOwnKey ==
  \A o \in ObjIds :
    Allocated(heap, o) /\ HasMethods(heap, o) =>
      \E v \in VariantNames :
        /\ Keys(heap[o].props) = <<v>>
        /\ ForIn(heap[o]) = <<v>>

\* what does hold: no attached method is ever among the visited keys
C11_MethodsNeverKeys ==
  \A o \in ObjIds :
    Allocated(heap, o) /\ HasMethods(heap, o) =>
      /\ ForIn(heap[o]) = Keys(heap[o].props)
      /\ \A i \in 1..Len(heap[o].props) : heap[o].props[i][1] \in VariantNames

\* the receiver was Some(x) when the call was made
WasSome == Len(Subject) = 1 /\ Subject[1][1] = "Some" /\ Subject[1][2] # Undefined

\* the receiver was None when the call was made
WasNone == Subject = <<<<"None", Null>>>>

\* the call returned a reference to a container that did not exist before
\* the call, another one than the receiver
ReturnedFresh ==
  /\ last.outcome = "return"
  /\ last.out.t = "ref"
  /\ last.out.v \in ObjIds
  /\ last.out.v # last.value
  /\ ~Allocated(last.pre, last.out.v)

\* the call has changed no container that existed before it, except
\* its receiver
OnlyReceiverChanged ==
  \A o \in ObjIds \ {last.value} :
    Allocated(last.pre, o) => heap[o] = last.pre[o]

\* C12: take() on Some(x) returns a fresh Some(x) and leaves the receiver
\* None; on None it returns a fresh None and leaves the receiver None; no
\* call on a container changes an Option returned earlier by take().
C12_Take ==
  /\ (last.op = "Option.take" /\ (WasSome \/ WasNone)) =>
       /\ ReturnedFresh
       /\ heap[last.out.v] =
            (IF WasSome THEN Option_Some(Subject[1][2]) ELSE Option_None)
       /\ heap[last.value] = Option_None
  /\ last.op \in {"Option.take", "Option.replace", "Option.getOrInsert",
                  "Option.getOrInsertWith", "mutate"} => OnlyReceiverChanged

C12_Witness ==
  /\ last.op = "Option.take"
  /\ Subject = <<<<"Some", Arr(1)>>>>
  /\ last.out.v # last.value
  /\ heap[last.out.v] = Option_Some(Arr(1))
  /\ heap[last.value] = Option_None

\* C13: getOrInsert(d) and getOrInsertWith(f) on None make the receiver
\* Some(d) (Some(f())) and return that data, f being called once; on
\* Some(x) they return x, leave the receiver as it was and do not call f.
\* Either way the receiver is Some afterwards, of the returned value.
C13_GetOrInsert ==
  (last.op \in {"Option.getOrInsert", "Option.getOrInsertWith"}
     /\ (WasSome \/ WasNone)) =>
    /\ last.outcome = "return"
    /\ WasNone => /\ last.out = last.data
                  /\ last.cb = 1
    /\ WasSome => /\ last.out = Subject[1][2]
                  /\ last.cb = 0
                  /\ heap = last.pre
    /\ heap[last.value] = Option_Some(last.out)
    /\ OnlyReceiverChanged

C13_Witness ==
  /\ last.op = "Option.getOrInsertWith"
  /\ WasNone
  /\ last.data = Null
  /\ last.out = Null
  /\ heap[last.value].props = <<<<"Some", Null>>>>

\* C14: replace(d) returns a fresh Option holding what the receiver held
\* before the call and leaves the receiver Some(d); the returned Option is
\* another container, which no later call on the receiver changes.
C14_Replace ==
  /\ (last.op = "Option.replace" /\ (WasSome \/ WasNone)) =>
       /\ ReturnedFresh
       /\ heap[last.out.v] = [props |-> Subject, proto |-> "OptionImpl"]
       /\ heap[last.out.v] = last.pre[last.value]
       /\ heap[last.value] = Option_Some(last.data)
  /\ (last.value \in ObjIds /\ IsOption(last.pre, last.value)) =>
       OnlyReceiverChanged

C14_Witness ==
  /\ last.op = "Option.replace"
  /\ Subject = <<<<"Some", Arr(1)>>>>
  /\ last.data = Num(0)
  /\ heap[last.value] = Option_Some(Num(0))
  /\ last.out.v # last.value
  /\ heap[last.out.v] = Option_Some(Arr(1))

\* the receiver was Ok(x) when the call was made
WasOk == Len(Subject) = 1 /\ Subject[1][1] = "Ok" /\ Subject[1][2] # Undefined

\* the receiver was Err(e) when the call was made
WasErr == Len(Subject) = 1 /\ Subject[1][1] = "Err" /\ Subject[1][2] # Undefined

\* C15: ok() returns Some(x) for Ok(x) and None for Err(e); err() returns
\* Some(e) for Err(e) and None for Ok(x); so r.ok().isSome() equals
\* r.isOk() for every Result r, whatever its payload (null included).
C15_OkErr ==
  /\ (last.op = "Result.ok" /\ (WasOk \/ WasErr)) =>
       /\ ReturnedFresh
       /\ heap[last.out.v] =
            (IF WasOk THEN Option_Some(Subject[1][2]) ELSE Option_None)
       /\ OptionImpl_isSome(heap, last.out.v).out =
            ResultImpl_isOk(last.pre, last.value).out
  /\ (last.op = "Result.err" /\ (WasOk \/ WasErr)) =>
       /\ ReturnedFresh
       /\ heap[last.out.v] =
            (IF WasErr THEN Option_Some(Subject[1][2]) ELSE Option_None)

\* C16: unwrapOr(v) returns x for Ok(x), whatever x is (null included),
\* and v for Err(e); unwrapOrElse(f) returns x for Ok(x) and f(e) for
\* Err(e); so r.unwrapOr(v) equals r.unwrapOrElse(() => v).
C16_UnwrapOr ==
  /\ (last.op = "Result.unwrapOr" /\ (WasOk \/ WasErr)) =>
       /\ last.outcome = "return"
       /\ last.out = (IF WasOk THEN Subject[1][2] ELSE last.data)
       /\ last.out =
            ResultImpl_unwrapOrElse(last.pre, last.value, last.data).out
  /\ (last.op = "Result.unwrapOrElse" /\ (WasOk \/ WasErr)) =>
       /\ last.outcome = "return"
       /\ last.out = (IF WasOk THEN Subject[1][2] ELSE last.data)
       /\ last.cb = (IF WasOk THEN 0 ELSE 1)

\* C17: Result.unwrap() returns x for Ok(x); for Err(e) it throws e itself,
\* the value the Result holds and no Error made for the occasion; the
\* receiver, like every other container, is unchanged.
C17_ResultUnwrap ==
  (last.op = "Result.unwrap" /\ (WasOk \/ WasErr)) =>
    /\ WasOk => /\ last.outcome = "return"
                /\ last.out = Subject[1][2]
    /\ WasErr => /\ last.outcome = "throw"
                 /\ last.out = Subject[1][2]
                 /\ last.out \in Errors
                 /\ last.msg = ""
    /\ heap = last.pre

C17_Witness ==
  /\ last.op = "Result.unwrap"
  /\ Subject = <<<<"Err", Error(2)>>>>
  /\ last.outcome = "throw"
  /\ last.out = Error(2)
  /\ heap[last.value] = Result_Err(Error(2))

\* C18: Option.unwrap() returns x for Some(x); for None it throws an Error
\* constructed at the throw, with the fixed message about unwrap on a None
\* value; the receiver, like every other container, is unchanged.
C18_OptionUnwrap ==
  (last.op = "Option.unwrap" /\ (WasSome \/ WasNone)) =>
    /\ WasSome => /\ last.outcome = "return"
                  /\ last.out = Subject[1][2]
    /\ WasNone => /\ last.outcome = "throw"
                  /\ last.out = Undefined
                  /\ last.msg = UnwrapMessage
    /\ heap = last.pre

C18_Witness ==
  /\ last.op = "Option.unwrap"
  /\ WasNone
  /\ last.outcome = "throw"
  /\ last.msg = UnwrapMessage
  /\ heap[last.value] = Option_None

\* C19: Option.from(v) is None exactly when v is null or undefined, and is
\* Some(v) for every other v, the falsy 0, "" and false included.
C19_From ==
  last.op = "Option.from" =>
    LET made == heap[last.value]
    IN /\ made.proto = "OptionImpl"
       /\ (made = Option_None) <=> (last.data \in {Null, Undefined})
       /\ last.data \notin {Null, Undefined} => made = Option_Some(last.data)
       /\ \A v \in {Num(0), Str(0), Bool(0)} :
            last.data = v => made.props = <<<<"Some", v>>>>

C19_Witness ==
  /\ last.op = "Option.from"
  /\ last.data = Bool(0)
  /\ heap[last.value].props = <<<<"Some", Bool(0)>>>>

\* C20: clone() of an Option or a Result returns a reference to a new
\* container with the variant and the payload of the receiver (the same
\* payload value, not a copy of it) and leaves the receiver as it was; a
\* later call on either of the two changes no container but its receiver.
C20_Clone ==
  /\ (\/ last.op = "Option.clone" /\ (WasSome \/ WasNone)
      \/ last.op = "Result.clone" /\ (WasOk \/ WasErr)) =>
       /\ ReturnedFresh
       /\ heap[last.out.v] = last.pre[last.value]
       /\ Keys(heap[last.out.v].props) = <<Subject[1][1]>>
       /\ Get(heap[last.out.v].props, Subject[1][1]) = Subject[1][2]
       /\ heap[last.value] = last.pre[last.value]
  /\ last.op # "none" => OnlyReceiverChanged

C20_Witness ==
  /\ last.op = "Result.clone"
  /\ Subject = <<<<"Err", Error(1)>>>>
  /\ last.out.v # last.value
  /\ heap[last.out.v] = Result_Err(Error(1))
  /\ heap[last.value] = Result_Err(Error(1))

\* C21: iterating Some(x) yields exactly x and iterating None yields
\* nothing; iterating Ok(x) yields exactly x and iterating Err(e) yields
\* nothing. An iteration leaves no trace: the container is as it was, so a
\* second iteration yields the same, and an iteration yields what the
\* container holds when it is made, also after a mutation.
C21_Iterate ==
  /\ (last.op = "Option.iterate" /\ (WasSome \/ WasNone)) =>
       /\ last.outcome = "return"
       /\ last.items = (IF WasSome THEN <<Subject[1][2]>> ELSE << >>)
       /\ heap = last.pre
       /\ OptionImpl_iterator(heap, last.value).items = last.items
  /\ (last.op = "Result.iterate" /\ (WasOk \/ WasErr)) =>
       /\ last.outcome = "return"
       /\ last.items = (IF WasOk THEN <<Subject[1][2]>> ELSE << >>)
       /\ heap = last.pre
       /\ ResultImpl_iterator(heap, last.value).items = last.items

C21_Witness ==
  /\ last.op = "Option.iterate"
  /\ Subject = <<<<"Some", Num(0)>>>>
  /\ last.items = <<Num(0)>>
  /\ heap[last.value] = Option_Some(Num(0))

\* the Option that o.map(f) makes, with the calls of f, on the heap h
MapOf(h, o, f) ==
  LET r == OptionImpl_map(WithTmp(h, NoObj), o, f, TmpId)
  IN [made |-> r.heap[TmpId], cb |-> r.cb]

\* C22: for all f and g returning no undefined, Some(x).map(f).map(g) has
\* the variant and payload of Some(x).map(x => g(f(x))), which is
\* Some(g(f(x))); None.map(f).map(g) is None, and neither f nor g is called.
C22_MapComposition ==
  (last.op = "Option.map" /\ (WasSome \/ WasNone)) =>
    /\ ReturnedFresh
    /\ \A g \in Fns :
         LET f == last.fn
             gf == [x \in AllData |-> g[f[x]]]
             second == MapOf(heap, last.out.v, g)
             direct == MapOf(last.pre, last.value, gf)
         IN /\ second.made = direct.made
            /\ WasSome => second.made = Option_Some(g[f[Subject[1][2]]])
            /\ WasNone => /\ second.made = Option_None
                          /\ last.cb = 0
                          /\ second.cb = 0

C22_Witness ==
  /\ last.op = "Option.map"
  /\ Subject = <<<<"Some", Arr(1)>>>>
  /\ last.fn = [x \in AllData |-> Null]
  /\ heap[last.out.v] = Option_Some(Null)
  /\ last.cb = 1

\* C23: andThen(f) on None returns None and does not call f, on Some(x) it
\* returns what f(x) returns; and(other) on None returns None, on Some(x)
\* it returns other.
C23_AndThen ==
  (last.op \in {"Option.and", "Option.andThen"} /\ (WasSome \/ WasNone)) =>
    /\ last.outcome = "return"
    /\ WasNone => /\ ReturnedFresh
                  /\ heap[last.out.v] = Option_None
                  /\ last.cb = 0
    /\ WasSome => /\ last.out = last.data
                  /\ heap = last.pre
                  /\ last.op = "Option.andThen" => last.cb = 1

C23_Witness ==
  /\ last.op = "Option.and"
  /\ Subject = <<<<"Some", Null>>>>
  /\ last.data.v # last.value
  /\ last.out = last.data
  /\ heap[last.out.v] = Option_Some(Arr(1))

\* C24: or(y) on Some(x) returns the receiver (an Option equal to it) and
\* on None returns y; orElse(f) on Some(x) returns the receiver and on None
\* returns what f() returns.
C24_OrElse ==
  (last.op \in {"Option.or", "Option.orElse"} /\ (WasSome \/ WasNone)) =>
    /\ last.outcome = "return"
    /\ heap = last.pre
    /\ WasSome => /\ last.out = Ref(last.value)
                  /\ heap[last.out.v].props = Subject
    /\ WasNone => last.out = last.data

C24_Witness ==
  /\ last.op = "Option.or"
  /\ WasNone
  /\ last.data.v # last.value
  /\ last.out = last.data
  /\ heap[last.out.v] = Option_Some(Num(0))

\* the Option `other` of the call was Some(y), was None, when the call
\* was made
OtherWasSome ==
  LET props == last.pre[last.data.v].props
  IN Len(props) = 1 /\ props[1][1] = "Some" /\ props[1][2] # Undefined

OtherWasNone == last.pre[last.data.v] = Option_None

\* C25: xor(other) is Some exactly when exactly one of the receiver and
\* other is Some, and then holds the payload of that one; it is None when
\* both are Some and when both are None.
C25_Xor ==
  (last.op = "Option.xor" /\ (WasSome \/ WasNone)
     /\ (OtherWasSome \/ OtherWasNone)) =>
    LET made == heap[last.out.v]
    IN /\ last.outcome = "return"
       /\ last.out.t = "ref"
       /\ (WasSome /\ OtherWasNone) => made = Option_Some(Subject[1][2])
       /\ (WasNone /\ OtherWasSome) => made = last.pre[last.data.v]
       /\ (WasSome /\ OtherWasSome) => made = Option_None
       /\ (WasNone /\ OtherWasNone) => made = Option_None
       /\ (made # Option_None) <=> (WasSome # OtherWasSome)

C25_Witness ==
  /\ last.op = "Option.xor"
  /\ WasNone
  /\ OtherWasSome
  /\ heap[last.out.v] = Option_Some(Arr(1))

\* C29: on a Some receiver, or, orElse, xor with a None other and filter
\* with a predicate that holds return the receiver itself, not a copy:
\* the returned reference is the receiver's, so whatever take(), replace()
\* or Enum.mutate later does to the receiver shows through it.
C29_ReturnsReceiver ==
  (/\ WasSome
   /\ \/ last.op \in {"Option.or", "Option.orElse"}
      \/ last.op = "Option.xor" /\ OtherWasNone
      \/ last.op = "Option.filter" /\ last.data = Bool(1)) =>
    /\ last.outcome = "return"
    /\ last.out = Ref(last.value)
    /\ heap = last.pre

C29_Witness ==
  /\ last.op = "Option.filter"
  /\ Subject = <<<<"Some", Arr(1)>>>>
  /\ last.data = Bool(1)
  /\ last.out = Ref(last.value)

\* C30: orElse, unwrapOrElse, okOrElse and getOrInsertWith call their
\* function once when the receiver is None and never when it is Some;
\* andThen, map and filter call theirs once when the receiver is Some and
\* never when it is None.
C30_LazyCallbacks ==
  /\ (last.op \in {"Option.orElse", "Option.unwrapOrElse", "Option.okOrElse",
                   "Option.getOrInsertWith"} /\ (WasSome \/ WasNone)) =>
       last.cb = (IF WasNone THEN 1 ELSE 0)
  /\ (last.op \in {"Option.andThen", "Option.map", "Option.filter"}
        /\ (WasSome \/ WasNone)) =>
       last.cb = (IF WasSome THEN 1 ELSE 0)

C30_Witness ==
  /\ last.op = "Option.okOrElse"
  /\ Subject = <<<<"Some", Null>>>>
  /\ last.cb = 0
  /\ heap[last.out.v] = Result_Ok(Null)

\* C26: map(f) returns Ok(f(x)) for Ok(x) and, without calling f, Err(e)
\* with the same e for Err(e); mapErr(f) returns Err(f(e)) for Err(e) and,
\* without calling f, Ok(x) with the same x for Ok(x). The receiver, like
\* every other container, is unchanged.
C26_ResultMap ==
  /\ (last.op = "Result.map" /\ (WasOk \/ WasErr)) =>
       /\ ReturnedFresh
       /\ WasOk => /\ heap[last.out.v] = Result_Ok(last.fn[Subject[1][2]])
                   /\ last.cb = 1
       /\ WasErr => /\ heap[last.out.v] = Result_Err(Subject[1][2])
                    /\ last.cb = 0
       /\ \A o \in ObjIds \ {last.out.v} : heap[o] = last.pre[o]
  /\ (last.op = "Result.mapErr" /\ (WasOk \/ WasErr)) =>
       /\ ReturnedFresh
       /\ WasErr => /\ heap[last.out.v] = Result_Err(last.fn[Subject[1][2]])
                    /\ last.cb = 1
       /\ WasOk => /\ heap[last.out.v] = Result_Ok(Subject[1][2])
                   /\ last.cb = 0
       /\ \A o \in ObjIds \ {last.out.v} : heap[o] = last.pre[o]

C26_Witness ==
  /\ last.op = "Result.map"
  /\ Subject = <<<<"Err", Error(1)>>>>
  /\ last.fn = [x \in AllData |-> Num(0)]
  /\ last.cb = 0
  /\ heap[last.out.v] = Result_Err(Error(1))
  /\ heap[last.value] = Result_Err(Error(1))

\* what o.transpose().transpose() returns for the Option o of the heap h
OptionRoundTrip(h, o) ==
  LET r1 == OptionImpl_transpose(Scratch(h), o, TmpId - 1, TmpId - 2)
      r2 == ResultImpl_transpose(r1.heap, r1.out.v, TmpId - 3, TmpId - 4)
  IN Tree(r2.heap, r2.out)

\* what r.transpose().transpose() returns for the Result r of the heap h
ResultRoundTrip(h, r) ==
  LET r1 == ResultImpl_transpose(Scratch(h), r, TmpId - 1, TmpId - 2)
      r2 == OptionImpl_transpose(r1.heap, r1.out.v, TmpId - 3, TmpId - 4)
  IN Tree(r2.heap, r2.out)

\* C27: for every Option of a Result o (None, Some(Ok(x)), Some(Err(e))),
\* o.transpose() swaps the nesting and o.transpose().transpose() has the
\* nesting and payload of o; likewise r.transpose().transpose() has the
\* nesting and payload of r for every Result of an Option r (Ok(None),
\* Ok(Some(x)), Err(e)).
C27_TransposeRoundTrip ==
  /\ last.op = "Option.transpose" =>
       /\ last.outcome = "return"
       /\ last.out.proto = "ResultImpl"
       /\ OptionRoundTrip(heap, last.value) = Tree(heap, Ref(last.value))
  /\ last.op = "Result.transpose" =>
       /\ last.outcome = "return"
       /\ last.out.proto = "OptionImpl"
       /\ ResultRoundTrip(heap, last.value) = Tree(heap, Ref(last.value))

C27_Witness ==
  /\ last.op = "Option.transpose"
  /\ last.out =
       [proto |-> "ResultImpl", key |-> "Ok",
        val |-> [proto |-> "OptionImpl", key |-> "Some", val |-> Null]]
  /\ OptionRoundTrip(heap, last.value) =
       [proto |-> "OptionImpl", key |-> "Some",
        val |-> [proto |-> "ResultImpl", key |-> "Ok", val |-> Null]]

\* C28: whatever f is and however often the function memo(f) returned is
\* called, f is called at most once, on the first call, and every call
\* returns what that first call of f returned.
C28_MemoOnce ==
  /\ \A o \in ObjIds : heap[o].proto = "memo" => hist[o].calls <= 1
  /\ last.op = "memo.call" =>
       /\ last.cb = 1 => hist[last.value].uses = 1
       /\ last.out = hist[last.value].first

====
